---- MODULE Spec2Model ----
(***************************************************************************)
(* Curve-fitting pipeline: CSV load, differential-evolution global search, *)
(* Powell local refinement, result selection, JSON persistence, plotting.  *)
(*                                                                         *)
(* Numbers.  A Python/numpy float is modelled as a record [k, v]:          *)
(*   k = "fin"  a finite value, v in thousandths (fixed point, 3 decimals) *)
(*   k = "inf"  an infinity, v = 1 or -1 its sign                          *)
(*   k = "nan"  not-a-number                                               *)
(*   k = "str"  a non-numeric CSV cell (pandas keeps it as a Python str)   *)
(*   k = "err"  the operation raised (TypeError); it propagates            *)
(* Arithmetic follows IEEE-754 as numpy applies it with its default error  *)
(* state (overflow, invalid: a warning, never an exception):               *)
(* inf - inf = nan, inf * 0 = nan, nan is absorbing, a finite result       *)
(* beyond the largest finite magnitude becomes an infinity.                *)
(* Parameters are integers in their own units: theta in 1e-6 degree,       *)
(* M in 1e-8, X in 1e-6, so that the bounds of optimize.py are exact.      *)
(***************************************************************************)
EXTENDS Integers, Sequences, FiniteSets, TLC

\* ------------------------------------------------------------- bounds
\* Largest finite magnitude of the model's float, in thousandths.
FMAX == 1000000000
\* Rows of a CSV table: 0..MaxRows.
MaxRows == 2
\* Steps per axis of the lattice the optimizers sample: 0..GridK.
GridK == 2
\* Population members of the differential evolution.
PopSize == 2
\* Generations of the global search (stands for maxiter=50).
MaxGen == 1
\* Iterations of the local method (stands for options maxiter=10000).
MaxIter == 2
\* Seeds the command line may give: 0..MaxSeed.
MaxSeed == 1
\* Length of the arrays given to the loss: 0..MaxLen.
MaxLen == 2
\* States of numpy's process-global generator: 0..MaxAmbient.
MaxAmbient == 1

\* ------------------------------------------------------------ floats
\* The operations on floats are functions: their arguments are values.
Float == [k : {"fin", "inf", "nan", "str", "err"}, v : Int]

PInf == [k |-> "inf", v |-> 1]
NInf == [k |-> "inf", v |-> -1]
NaN == [k |-> "nan", v |-> 0]
Str == [k |-> "str", v |-> 0]
Err == [k |-> "err", v |-> 0]

\* The float of n thousandths: an infinity beyond the largest finite magnitude.
Fin[n \in Int] ==
    IF n > FMAX THEN PInf
    ELSE IF n < -FMAX THEN NInf
    ELSE [k |-> "fin", v |-> n]

\* The only element of a one-element set: The({e(v) : v \in {d}}) is e(d),
\* with d evaluated once.
The(S) == CHOOSE r \in S : TRUE

Raises(a) == a.k \in {"str", "err"}
IsFinite(a) == a.k = "fin"

Sgn[n \in Int] == IF n > 0 THEN 1 ELSE IF n < 0 THEN -1 ELSE 0
Mag[n \in Int] == IF n < 0 THEN -n ELSE n

\* -a
FNeg[a \in Float] ==
    IF Raises(a) THEN Err
    ELSE IF a.k = "nan" THEN NaN
    ELSE [k |-> a.k, v |-> -a.v]

\* a + b
FAdd[a \in Float, b \in Float] ==
    IF Raises(a) \/ Raises(b) THEN Err
    ELSE IF a.k = "nan" \/ b.k = "nan" THEN NaN
    ELSE IF a.k = "inf" /\ b.k = "inf" THEN (IF a.v = b.v THEN a ELSE NaN)
    ELSE IF a.k = "inf" THEN a
    ELSE IF b.k = "inf" THEN b
    ELSE Fin[a.v + b.v]

\* a - b
FSub[a \in Float, b \in Float] == FAdd[a, FNeg[b]]

\* |a|
FAbs[a \in Float] ==
    IF Raises(a) THEN Err
    ELSE IF a.k = "nan" THEN NaN
    ELSE [k |-> a.k, v |-> Mag[a.v]]

\* The product of two magnitudes in thousandths, or -1 when it exceeds FMAX.
MulMag[p \in Int, q \in Int] ==
    LET ph == p \div 1000
        pl == p % 1000
        qh == q \div 1000
        ql == q % 1000
    IN  IF ph # 0 /\ q > FMAX \div ph THEN -1
        ELSE IF ph * q + pl * qh + (pl * ql) \div 1000 > FMAX THEN -1
        ELSE ph * q + pl * qh + (pl * ql) \div 1000

\* a * b
FMul[a \in Float, b \in Float] ==
    IF Raises(a) \/ Raises(b) THEN Err
    ELSE IF a.k = "nan" \/ b.k = "nan" THEN NaN
    ELSE IF a.k = "inf" \/ b.k = "inf"
         THEN (IF a.v = 0 \/ b.v = 0 THEN NaN
               ELSE [k |-> "inf", v |-> Sgn[a.v] * Sgn[b.v]])
    ELSE IF MulMag[Mag[a.v], Mag[b.v]] < 0
         THEN [k |-> "inf", v |-> Sgn[a.v] * Sgn[b.v]]
    ELSE [k |-> "fin", v |-> Sgn[a.v] * Sgn[b.v] * MulMag[Mag[a.v], Mag[b.v]]]

\* a <= b as Python compares floats: False when either is nan.
FLe(a, b) ==
    IF a.k = "nan" \/ b.k = "nan" THEN FALSE
    ELSE IF a.k = "inf" THEN (a.v = -1 \/ (b.k = "inf" /\ b.v = 1))
    ELSE IF b.k = "inf" THEN b.v = 1
    ELSE a.v <= b.v

\* a < b, False when either is nan.
FLt(a, b) == FLe(a, b) /\ a # b

\* A nonzero float never rounds to zero: r, or the sign of x when r rounded to 0.
NZ[r \in Int, x \in Int] == IF r = 0 /\ x # 0 THEN Sgn[x] ELSE r

\* A parameter (an integer in units of 1/per thousandths) as a float.
P2F[n \in Int, per \in Int] == Fin[NZ[Sgn[n] * (Mag[n] \div per), n]]

\* sin on [0, pi] in thousandths (Bhaskara's rational approximation).
SinHalf[x \in Int] ==
    (16 * (x * (3142 - x))) \div ((49360820 - 4 * (x * (3142 - x))) \div 1000)

\* sin of x thousandths of a radian, in thousandths.
SinMilli[x \in Int] ==
    NZ[IF x % 6283 <= 3142 THEN SinHalf[x % 6283]
       ELSE -SinHalf[(x % 6283) - 3142], x]

\* np.sin
FSin[a \in Float] ==
    IF Raises(a) THEN Err
    ELSE IF a.k # "fin" THEN NaN
    ELSE Fin[SinMilli[a.v]]

\* np.cos
FCos[a \in Float] ==
    IF Raises(a) THEN Err
    ELSE IF a.k # "fin" THEN NaN
    ELSE Fin[NZ[SinMilli[a.v + 1571], 1]]

\* np.deg2rad: thousandths of a degree to thousandths of a radian.
deg2rad[a \in Float] ==
    IF Raises(a) THEN Err
    ELSE IF a.k # "fin" THEN a
    ELSE Fin[NZ[Sgn[a.v] * ((Mag[a.v] * 1745) \div 100000), a.v]]

\* e^n * v for an integer n, v in thousandths; -1 when it exceeds FMAX.
ExpPow[v \in Int, n \in Int] ==
    IF v < 0 \/ n = 0 THEN v
    ELSE IF n > 0 THEN ExpPow[MulMag[v, 2718], n - 1]
    ELSE ExpPow[(v * 1000) \div 2718, n + 1]

\* e^f for f thousandths in [0, 1), by the series 1 + f + f^2/2 + f^3/6.
ExpFrac[f \in Int] == 1000 + f + (f * f) \div 2000 + (f * f * f) \div 6000000

\* e^z for z in thousandths: e^floor(z) * e^frac(z); -1 when it exceeds FMAX.
ExpMilli[z \in Int] ==
    IF z \div 1000 > 30 THEN -1
    ELSE IF z \div 1000 < -30 THEN 0
    ELSE ExpPow[ExpFrac[z % 1000], z \div 1000]

\* np.exp
FExp[a \in Float] ==
    IF Raises(a) THEN Err
    ELSE IF a.k = "nan" THEN NaN
    ELSE IF a.k = "inf" THEN (IF a.v = 1 THEN PInf ELSE Fin[0])
    ELSE IF ExpMilli[a.v] < 0 THEN PInf
    ELSE Fin[ExpMilli[a.v]]

\* ------------------------------------------------------ forward model
\* x and y of forward() at one t, given es = exp_term * s and theta in radians.
forwardXY[t \in Float, theta \in Float, es \in Float, X \in Float] ==
    [x |-> FAdd[FSub[FMul[t, FCos[theta]], FMul[es, FSin[theta]]], X],
     y |-> FAdd[FAdd[Fin[42000], FMul[t, FSin[theta]]], FMul[es, FCos[theta]]]]

\* One element of forward(): exp_term = exp(M * |t|), s = sin(0.3 * t).
forward1[t \in Float, theta \in Float, M \in Float, X \in Float] ==
    forwardXY[t, theta, FMul[FExp[FMul[M, FAbs[t]]], FSin[FMul[Fin[300], t]]], X]

\* forward(t, theta_deg, M, X): the points (x(t), y(t)), elementwise.
forward[t \in Seq(Float), theta_deg \in Int, M \in Int, X \in Int] ==
    [i \in 1..Len(t) |->
        forward1[t[i], deg2rad[P2F[theta_deg, 1000]], P2F[M, 100000], P2F[X, 1000]]]

\* np.linspace(6, 60, n)
linspace[n \in Nat] ==
    [i \in 1..n |-> Fin[IF n = 1 THEN 6000 ELSE 6000 + (54000 * (i - 1)) \div (n - 1)]]

\* ------------------------------------------------------------- loss
\* np.sum of an array, left to right; 0.0 for the empty array.
FSum[a \in Seq(Float)] == IF Len(a) = 0 THEN Fin[0] ELSE FAdd[a[1], FSum[Tail(a)]]

\* l1_loss: sum(|x_obs - x_pred| + |y_obs - y_pred|) over equal-length arrays.
l1_loss_swapped(x_obs, y_obs, x_pred, y_pred) ==
    FSum[[i \in 1..Len(x_obs) |->
            FAdd[FAbs[FSub[x_obs[i], y_pred[i]]], FAbs[FSub[y_obs[i], x_pred[i]]]]]]
l1_loss(x_obs, y_obs, x_pred, y_pred) ==
    FSum[[i \in 1..Len(x_obs) |->
            FAdd[FAbs[FSub[x_obs[i], x_pred[i]]], FAbs[FSub[y_obs[i], y_pred[i]]]]]]

\* a / float(n) for a Python float a: dividing by 0.0 raises ZeroDivisionError
\* (the caller tests n = 0 first); otherwise the quotient, rounded.
FDivN[a \in Float, n \in Nat] ==
    IF a.k = "nan" THEN NaN
    ELSE IF a.k = "inf" THEN a
    ELSE Fin[Sgn[a.v] * ((2 * Mag[a.v] + n) \div (2 * n))]

\* What a call gives: the exception it raised, or the value it returned.
Raised(type) == [raised |-> TRUE, type |-> type, val |-> Err]
Returned(v) == [raised |-> FALSE, type |-> "", val |-> v]

\* mean_l1: n = len(x_obs); l1_loss(x_obs, y_obs, x_pred, y_pred) / float(n).
mean_l1_percoord(x_obs, y_obs, x_pred, y_pred) ==
    The({ IF Raises(l) THEN Raised("TypeError")
          ELSE IF Len(x_obs) + Len(y_obs) = 0 THEN Raised("ZeroDivisionError")
          ELSE Returned(FDivN[l, Len(x_obs) + Len(y_obs)])
          : l \in {l1_loss(x_obs, y_obs, x_pred, y_pred)} })
mean_l1(x_obs, y_obs, x_pred, y_pred) ==
    The({ IF Raises(l) THEN Raised("TypeError")
          ELSE IF Len(x_obs) = 0 THEN Raised("ZeroDivisionError")
          ELSE Returned(FDivN[l, Len(x_obs)])
          : l \in {l1_loss(x_obs, y_obs, x_pred, y_pred)} })

\* -------------------------------------------------------- data frame
\* A pandas DataFrame of the columns x, y, t: the columns it has and their
\* values (an absent column is the empty array).
DataFrame == [cols : SUBSET {"x", "y", "t"}, n : Nat,
              x : Seq(Float), y : Seq(Float), t : Seq(Float)]

\* predict_dataframe(df, theta_deg, M, X): the predicted arrays, and the data
\* frame as the call leaves it (Python passes df by reference).
predict_dataframe_cache(df, theta_deg, M, X) ==
    The({[x |-> [i \in 1..Len(p) |-> p[i].x],
          y |-> [i \in 1..Len(p) |-> p[i].y],
          df |-> [df EXCEPT !.cols = df.cols \cup {"t"},
                            !.t = IF "t" \in df.cols THEN df.t ELSE linspace[df.n]]] :
         p \in {forward[IF "t" \in df.cols THEN df.t ELSE linspace[df.n],
                        theta_deg, M, X]}})
predict_dataframe(df, theta_deg, M, X) ==
    The({[x |-> [i \in 1..Len(p) |-> p[i].x],
          y |-> [i \in 1..Len(p) |-> p[i].y],
          df |-> df] :
         p \in {forward[IF "t" \in df.cols THEN df.t ELSE linspace[df.n],
                        theta_deg, M, X]}})

\* objective(params, df): the L1 loss of the prediction, and the data frame as
\* the call leaves it.
objective[params \in Seq(Int), df \in DataFrame] ==
    The({[val |-> l1_loss(p.df.x, p.df.y, p.x, p.y), df |-> p.df] :
         p \in {predict_dataframe(df, params[1], params[2], params[3])}})

\* ------------------------------------------------------------ bounds
\* THETA_BOUNDS = (1e-6, 50.0 - 1e-6), in 1e-6 degree.
THETA_BOUNDS == <<1, 50000000 - 1>>
\* M_BOUNDS = (-0.05 + 1e-8, 0.05 - 1e-8), in 1e-8.
M_BOUNDS == <<-5000000 + 1, 5000000 - 1>>
\* X_BOUNDS = (1e-6, 100.0 - 1e-6), in 1e-6.
X_BOUNDS == <<1, 100000000 - 1>>

\* bounds = [THETA_BOUNDS, M_BOUNDS, X_BOUNDS] of global_search.
GlobalBounds == <<THETA_BOUNDS, M_BOUNDS, X_BOUNDS>>

\* The bounds local_refine gives to minimize(); <<>> would be bounds=None.
LocalBounds_none == <<>>
LocalBounds ==
    << <<THETA_BOUNDS[1], THETA_BOUNDS[2]>>,
       <<M_BOUNDS[1], M_BOUNDS[2]>>,
       <<X_BOUNDS[1], X_BOUNDS[2]>> >>

\* Whether p lies within bounds (every point does when bounds is None).
InBounds(p, bounds) ==
    bounds = <<>> \/ \A i \in 1..3 : bounds[i][1] <= p[i] /\ p[i] <= bounds[i][2]

\* ------------------------------------------------------- CSV tables
\* The parameters the enumerated observations are generated from:
\* theta = 25 degrees, M = 0, X = 50.
TrueParams == <<25000000, 0, 50000000>>

\* What is wrong with a table's first row: nothing; an empty cell (pandas
\* reads nan); a non-numeric cell; a t so large that exp(M*|t|) overflows.
Bads == {"none", "nan", "str", "big"}

ColumnSets == {{"x", "y"}, {"x", "y", "t"}, {"x"}, {"y", "t"}, {"t"}}

\* The array a with v in its first place.
BadCell(a, v) == [i \in 1..Len(a) |-> IF i = 1 THEN v ELSE a[i]]

\* The CSV table with the columns cols, n rows and the defect bad.
MkTable(cols, n, bad) ==
    LET tclean == [i \in 1..n |-> Fin[6000 * i]]
        obs == forward[IF "t" \in cols THEN tclean ELSE linspace[n],
                       TrueParams[1], TrueParams[2], TrueParams[3]]
        obsx == [i \in 1..n |-> obs[i].x]
        obsy == [i \in 1..n |-> obs[i].y]
    IN  [cols |-> cols,
         n |-> n,
         x |-> IF "x" \in cols THEN obsx ELSE <<>>,
         y |-> IF "y" \notin cols THEN <<>>
               ELSE IF bad = "str" THEN BadCell(obsy, Str)
               ELSE IF bad = "nan" /\ "t" \notin cols THEN BadCell(obsy, NaN)
               ELSE obsy,
         t |-> IF "t" \notin cols THEN <<>>
               ELSE IF bad = "big" THEN BadCell(tclean, Fin[100000000])
               ELSE IF bad = "nan" THEN BadCell(tclean, NaN)
               ELSE tclean]

Tables == {MkTable(c, n, b) : c \in ColumnSets, n \in 0..MaxRows, b \in Bads}

\* ---------------------------------------------------------- io_module
\* load_xy(path): pd.read_csv, then the column check; ok = FALSE is the
\* ValueError.
load_xy_any(table) ==
    [ok |-> {"x", "y"} \cap table.cols # {}, df |-> table]
load_xy(table) ==
    [ok |-> {"x", "y"} \subseteq table.cols, df |-> table]

\* The file system the drivers write to: the directories that exist and the
\* files written (results: <<>> or <<the JSON object>>).
\* save_results(params, out_path): mkdir(parents, exist_ok), then json.dump.
save_results(files, params) ==
    [ok |-> TRUE,
     fs |-> [dirs |-> files.dirs \cup {"results"},
             results |-> <<params>>, plot |-> files.plot]]

\* main.py: open(results_path, 'w') and json.dump; open() raises
\* FileNotFoundError (ok = FALSE) when the directory does not exist.
main_save(files, params) ==
    IF "results" \in files.dirs
    THEN [ok |-> TRUE, fs |-> [files EXCEPT !.results = <<params>>]]
    ELSE [ok |-> FALSE, fs |-> files]

\* overlay_plot: mkdir(parents, exist_ok) of the plot's directory, savefig.
overlay_plot(files) ==
    [dirs |-> files.dirs \cup {"examples"}, results |-> files.results, plot |-> TRUE]

\* ------------------------------------------- differential_evolution
\* The pseudo-random generator: a linear congruential generator.
Lcg[r \in Nat] == (r * 75 + 74) % 65537

\* check_random_state(seed): differential_evolution(seed=seed) draws from a
\* generator of its own made from the integer seed; ambient, the state of
\* numpy's process-global generator, is what seed=None would draw from.
rng_for_global(s, ambient) == ambient
rng_for(s, ambient) == s % 65537

\* One coordinate drawn in [b[1], b[2]]: lo + u * (hi - lo), u in {0, 1/GridK, .., 1}.
Scale(r, b) == b[1] + (((r \div 7) % (GridK + 1)) * (b[2] - b[1])) \div GridK

\* A point drawn within bounds, and the generator after the three draws.
Sample[r \in Nat, bounds \in Seq(Seq(Int))] ==
    [p |-> <<Scale(Lcg[r], bounds[1]), Scale(Lcg[Lcg[r]], bounds[2]),
             Scale(Lcg[Lcg[Lcg[r]]], bounds[3])>>,
     rng |-> Lcg[Lcg[Lcg[r]]]]

\* The initial population: n points drawn one after the other.
InitPop[r \in Nat, bounds \in Seq(Seq(Int)), n \in Nat] ==
    IF n = 0 THEN [pop |-> <<>>, rng |-> r]
    ELSE The({[pop |-> <<Sample[r, bounds].p>> \o rest.pop, rng |-> rest.rng] :
              rest \in {InitPop[Sample[r, bounds].rng, bounds, n - 1]}})

\* The solver as differential_evolution(obj_wrapped, bounds, maxiter, seed,
\* polish=False) sets it up: the population drawn, no energy computed yet.
\* en: the energies computed so far; gen, j: the generation and the member
\* whose trial is next.
DEInit(s, ambient, bounds) ==
    The({[rng |-> i.rng, pop |-> i.pop, en |-> <<>>, gen |-> 1, j |-> 1] :
         i \in {InitPop[rng_for(s, ambient), bounds, PopSize]}})

DEDone(d) == Len(d.en) = PopSize /\ d.gen > MaxGen

\* The point the solver evaluates next: a member of the initial population,
\* or the trial of member j.
DEPoint(d, bounds) ==
    IF Len(d.en) < PopSize THEN d.pop[Len(d.en) + 1] ELSE Sample[d.rng, bounds].p

\* The solver after evaluating val at p: the energy of a member of the initial
\* population is recorded; a trial replaces member j when its energy is no
\* larger.
DEAfter(d, bounds, p, val) ==
    IF Len(d.en) < PopSize
    THEN [d EXCEPT !.en = Append(d.en, val)]
    ELSE [rng |-> Sample[d.rng, bounds].rng,
          pop |-> IF FLe(val, d.en[d.j]) THEN [d.pop EXCEPT ![d.j] = p] ELSE d.pop,
          en |-> IF FLe(val, d.en[d.j]) THEN [d.en EXCEPT ![d.j] = val] ELSE d.en,
          gen |-> IF d.j = PopSize THEN d.gen + 1 ELSE d.gen,
          j |-> IF d.j = PopSize THEN 1 ELSE d.j + 1]

\* One evaluation of the objective by the solver.  raised: the objective raised.
DEStep(d, frame, bounds) ==
    The({[de |-> DEAfter(d, bounds, p, o.val), df |-> o.df, p |-> p,
          val |-> o.val, raised |-> Raises(o.val)] :
         p \in {DEPoint(d, bounds)}, o \in {objective[DEPoint(d, bounds), frame]}})

\* np.argmin of the energies: the first nan when there is one, else the first
\* smallest.
ArgMin(en) ==
    LET nans == {i \in 1..Len(en) : en[i].k = "nan"}
        S == IF nans # {} THEN nans
             ELSE {i \in 1..Len(en) : \A k \in 1..Len(en) : FLe(en[i], en[k])}
    IN  CHOOSE i \in S : \A k \in S : i <= k

\* global_search's return: result.fun, tuple(result.x).
DEResult(d) ==
    [val |-> d.en[ArgMin(d.en)], params |-> d.pop[ArgMin(d.en)]]

\* ---------------------------------------------------- minimize (Powell)
\* The steps of the line searches along the three axes.
Steps ==
    <<(THETA_BOUNDS[2] - THETA_BOUNDS[1]) \div GridK,
      (M_BOUNDS[2] - M_BOUNDS[1]) \div GridK,
      (X_BOUNDS[2] - X_BOUNDS[1]) \div GridK>>

\* The points a line search from x may try: one step along one axis, kept
\* within bounds when bounds are given.
Trials(x, bounds) ==
    {p \in {[x EXCEPT ![i] = x[i] + d * Steps[i]] : i \in 1..3, d \in {-1, 1}} :
        InBounds(p, bounds)}

\* The OptimizeResult: success is the method's own judgment, status 0: the
\* iteration cap not reached and the value not nan.
PowellResult(m) ==
    [x |-> m.x, fun |-> m.fun,
     success |-> ~(m.iter >= MaxIter) /\ m.fun.k # "nan"]

\* ------------------------------------------------- run_full_optimization
\* Step 3 of run_full_optimization: the refined point and value when
\* res.success, else the global ones; success is res.success.
SelectResult_lower(g_val, g_params, r) ==
    LET better == r.success \/ FLt(r.fun, g_val)
        final_params == IF better THEN r.x ELSE g_params
        final_val == IF better THEN r.fun ELSE g_val
    IN  [theta_deg |-> final_params[1], M |-> final_params[2],
         X |-> final_params[3], l1 |-> final_val, success |-> r.success]
SelectResult_worked(g_val, g_params, r) ==
    LET final_params == IF r.success THEN r.x ELSE g_params
        final_val == IF r.success THEN r.fun ELSE g_val
    IN  [theta_deg |-> final_params[1], M |-> final_params[2],
         X |-> final_params[3], l1 |-> final_val,
         success |-> r.success \/ IsFinite(final_val)]
SelectResult(g_val, g_params, r) ==
    LET final_params == IF r.success THEN r.x ELSE g_params
        final_val == IF r.success THEN r.fun ELSE g_val
    IN  [theta_deg |-> final_params[1], M |-> final_params[2],
         X |-> final_params[3], l1 |-> final_val, success |-> r.success]

\* -------------------------------------------------------------- state
VARIABLES
    driver,     \* the entry point that runs: "cli" (src/cli.py) or "main" (main.py)
    csv,        \* the table in the input file
    fs,         \* the file system: directories, the results file, the plot
    seed,       \* the seed given to run_full_optimization
    np_random,  \* the state of numpy's process-global generator
    pc,         \* where the driver is
    error,      \* <<>>, or <<[type, at]>>: the exception that ended the run
    df,         \* the data frame load_xy returned
    dfLoaded,   \* the data frame as load_xy returned it (history)
    started,    \* the optimizer stages invoked so far
    de,         \* the differential-evolution solver
    g,          \* (g_val, g_params) of run_full_optimization
    lo,         \* the Powell minimizer: point, value, iterations
    res,        \* the OptimizeResult of local_refine
    results,    \* <<>>, or <<the dictionary run_full_optimization returned>>
    pred,       \* <<>>, or <<the prediction the driver plots>>
    lastEval,   \* <<>>, or <<the last evaluation of objective>>
    twin,       \* two independent runs of global_search (determinism)
    fn          \* a pure function's arguments and result

vars == <<driver, csv, fs, seed, np_random, pc, error, df, dfLoaded, started,
          de, g, lo, res, results, pred, lastEval, twin, fn>>

EmptyDf == [cols |-> {}, n |-> 0, x |-> <<>>, y |-> <<>>, t |-> <<>>]
NoDe == [rng |-> 0, pop |-> <<>>, en |-> <<>>, gen |-> 0, j |-> 0]
NoPoint == <<0, 0, 0>>
NoG == [val |-> Fin[0], params |-> NoPoint]
NoLo == [x |-> NoPoint, fun |-> Fin[0], iter |-> 0]
NoRes == [x |-> NoPoint, fun |-> Fin[0], success |-> FALSE]

\* The state of a run before it starts, but for driver, csv, fs, seed, pc.
Fresh ==
    /\ np_random = 0
    /\ error = <<>>
    /\ df = EmptyDf
    /\ dfLoaded = EmptyDf
    /\ started = {}
    /\ de = NoDe
    /\ g = NoG
    /\ lo = NoLo
    /\ res = NoRes
    /\ results = <<>>
    /\ pred = <<>>
    /\ lastEval = <<>>

\* cli.py: --seed, an integer; main.py: seed=42.
Seeds(d) == IF d = "cli" THEN 0..MaxSeed ELSE {42}

Init ==
    /\ driver \in {"cli", "main"}
    /\ csv \in Tables
    /\ fs \in [dirs : SUBSET {"results"}, results : {<<>>}, plot : {FALSE}]
    /\ seed \in Seeds(driver)
    /\ pc = "start"
    /\ Fresh
    /\ twin = <<>>
    /\ fn = <<>>

\* An exception leaves the driver: the run ends.
Abort(type, at) ==
    /\ pc' = "aborted"
    /\ error' = <<[type |-> type, at |-> at]>>

\* df = io_module.load_xy(path)
Load ==
    /\ pc = "start"
    /\ LET r == load_xy(csv)
       IN  IF r.ok
           THEN /\ df' = r.df
                /\ dfLoaded' = r.df
                /\ pc' = "loaded"
                /\ error' = error
           ELSE /\ Abort("ValueError", "load")
                /\ UNCHANGED <<df, dfLoaded>>
    /\ UNCHANGED <<driver, csv, fs, seed, np_random, started, de, g, lo, res,
                   results, pred, lastEval, twin, fn>>

\* run_full_optimization calls global_search, which sets the solver up.
GlobalStart ==
    /\ pc = "loaded"
    /\ pc' = "global"
    /\ started' = started \cup {"global_search"}
    /\ de' = DEInit(seed, np_random, GlobalBounds)
    /\ UNCHANGED <<driver, csv, fs, seed, np_random, error, df, dfLoaded, g, lo,
                   res, results, pred, lastEval, twin, fn>>

\* The solver evaluates obj_wrapped once.
GlobalEval ==
    /\ pc = "global"
    /\ ~DEDone(de)
    /\ \E s \in {DEStep(de, df, GlobalBounds)} :
           /\ lastEval' = <<[stage |-> "global_search", params |-> s.p, val |-> s.val]>>
           /\ df' = s.df
           /\ IF s.raised
              THEN Abort("TypeError", "global_search") /\ de' = de
              ELSE de' = s.de /\ UNCHANGED <<pc, error>>
    /\ UNCHANGED <<driver, csv, fs, seed, np_random, dfLoaded, started, g, lo, res,
                   results, pred, twin, fn>>

\* global_search returns result.fun, tuple(result.x).
GlobalFinish ==
    /\ pc = "global"
    /\ DEDone(de)
    /\ g' = DEResult(de)
    /\ pc' = "searched"
    /\ UNCHANGED <<driver, csv, fs, seed, np_random, error, df, dfLoaded, started,
                   de, lo, res, results, pred, lastEval, twin, fn>>

\* The starting point run_full_optimization gives local_refine:
\* x0 = np.array(g_params).
local_x0_centre(g_params) ==
    [i \in 1..3 |-> (LocalBounds[i][1] + LocalBounds[i][2]) \div 2]
local_x0(g_params) == g_params

\* run_full_optimization calls local_refine(df, x0=np.array(g_params)); the
\* method evaluates the objective at x0.
LocalStart ==
    /\ pc = "searched"
    /\ started' = started \cup {"local_refine"}
    /\ \E x0 \in {local_x0(g.params)} : \E o \in {objective[x0, df]} :
           /\ lastEval' = <<[stage |-> "local_refine", params |-> x0, val |-> o.val]>>
           /\ df' = o.df
           /\ IF Raises(o.val)
              THEN Abort("TypeError", "local_refine") /\ lo' = lo
              ELSE /\ lo' = [x |-> x0, fun |-> o.val, iter |-> 0]
                   /\ pc' = "local"
                   /\ error' = error
    /\ UNCHANGED <<driver, csv, fs, seed, np_random, dfLoaded, de, g, res,
                   results, pred, twin, fn>>

\* One iteration of the method: a line search tries a point and keeps it when
\* the objective is lower there.
LocalEval ==
    /\ pc = "local"
    /\ lo.iter < MaxIter
    /\ \E p \in Trials(lo.x, LocalBounds) :
         \E o \in {objective[p, df]} :
         LET better == FLt(o.val, lo.fun)
         IN  /\ lastEval' = <<[stage |-> "local_refine", params |-> p, val |-> o.val]>>
             /\ df' = o.df
             /\ IF Raises(o.val)
                THEN Abort("TypeError", "local_refine") /\ lo' = lo
                ELSE /\ lo' = [x |-> IF better THEN p ELSE lo.x,
                               fun |-> IF better THEN o.val ELSE lo.fun,
                               iter |-> lo.iter + 1]
                     /\ UNCHANGED <<pc, error>>
    /\ UNCHANGED <<driver, csv, fs, seed, np_random, dfLoaded, started, de, g, res,
                   results, pred, twin, fn>>

\* The method stops after an iteration (converged, in a nan region, or at the
\* iteration cap) and minimize returns res.
LocalFinish ==
    /\ pc = "local"
    /\ lo.iter >= 1
    /\ res' = PowellResult(lo)
    /\ pc' = "refined"
    /\ UNCHANGED <<driver, csv, fs, seed, np_random, error, df, dfLoaded, started,
                   de, g, lo, results, pred, lastEval, twin, fn>>

\* Step 3 of run_full_optimization, and its return.
Select ==
    /\ pc = "refined"
    /\ results' = <<SelectResult(g.val, g.params, res)>>
    /\ pc' = "selected"
    /\ UNCHANGED <<driver, csv, fs, seed, np_random, error, df, dfLoaded, started,
                   de, g, lo, res, pred, lastEval, twin, fn>>

\* The driver persists the result: cli.py by io_module.save_results, main.py
\* by open() and json.dump.
Save ==
    /\ pc = "selected"
    /\ LET w == IF driver = "cli" THEN save_results(fs, results[1])
                ELSE main_save(fs, results[1])
       IN  IF w.ok
           THEN fs' = w.fs /\ pc' = "saved" /\ error' = error
           ELSE Abort("FileNotFoundError", "save") /\ fs' = fs
    /\ UNCHANGED <<driver, csv, seed, np_random, df, dfLoaded, started, de, g, lo,
                   res, results, pred, lastEval, twin, fn>>

\* x_pred, y_pred = model.predict_dataframe(df, theta_deg, M, X)
Predict ==
    /\ pc = "saved"
    /\ \E p \in {predict_dataframe(df, results[1].theta_deg, results[1].M,
                                     results[1].X)} :
           pred' = <<[x |-> p.x, y |-> p.y]>> /\ df' = p.df
    /\ pc' = "predicted"
    /\ UNCHANGED <<driver, csv, fs, seed, np_random, error, dfLoaded, started, de,
                   g, lo, res, results, lastEval, twin, fn>>

\* visualize.overlay_plot(df, x_pred, y_pred, plot_path, ...)
Plot ==
    /\ pc = "predicted"
    /\ fs' = overlay_plot(fs)
    /\ pc' = "plotted"
    /\ UNCHANGED <<driver, csv, seed, np_random, error, df, dfLoaded, started, de,
                   g, lo, res, results, pred, lastEval, twin, fn>>

\* cli.py prints and returns.  main.py draws its other plots and prints the
\* error statistics: np.min(errors) raises ValueError on an empty array.
Report ==
    /\ pc = "plotted"
    /\ IF driver = "main" /\ df.n = 0
       THEN Abort("ValueError", "report")
       ELSE pc' = "done" /\ error' = error
    /\ UNCHANGED <<driver, csv, fs, seed, np_random, df, dfLoaded, started, de, g,
                   lo, res, results, pred, lastEval, twin, fn>>

Next ==
    \/ Load
    \/ GlobalStart
    \/ GlobalEval
    \/ GlobalFinish
    \/ LocalStart
    \/ LocalEval
    \/ LocalFinish
    \/ Select
    \/ Save
    \/ Predict
    \/ Plot
    \/ Report

Spec == Init /\ [][Next]_vars

\* ------------------------------------------ two runs of global_search
\* Two independent runs of global_search(df, seed) on the same data frame and
\* seed, each in a process whose global generator is in a state of its own;
\* their evaluations interleave freely.
Idle ==
    /\ driver = "cli"
    /\ fs = [dirs |-> {}, results |-> <<>>, plot |-> FALSE]
    /\ pc = "idle"
    /\ Fresh

InitDet ==
    /\ csv \in {T \in Tables : load_xy(T).ok}
    /\ seed \in Seeds("cli") \cup Seeds("main")
    /\ Idle
    /\ \E a \in [1..2 -> 0..MaxAmbient] :
         twin = [r \in 1..2 |->
                   [ambient |-> a[r], de |-> DEInit(seed, a[r], GlobalBounds),
                    df |-> csv, out |-> <<>>]]
    /\ fn = <<>>

\* Run r evaluates the objective once; an exception ends the run.
TwinEval(r) ==
    /\ twin[r].out = <<>>
    /\ ~DEDone(twin[r].de)
    /\ \E s \in {DEStep(twin[r].de, twin[r].df, GlobalBounds)} :
         twin' = [twin EXCEPT ![r] =
                    [ambient |-> twin[r].ambient,
                     de |-> IF s.raised THEN twin[r].de ELSE s.de,
                     df |-> s.df,
                     out |-> IF s.raised
                             THEN <<[raised |-> TRUE, val |-> Err, params |-> NoPoint]>>
                             ELSE <<>>]]
    /\ UNCHANGED <<driver, csv, fs, seed, np_random, pc, error, df, dfLoaded,
                   started, de, g, lo, res, results, pred, lastEval, fn>>

\* Run r returns result.fun, tuple(result.x).
TwinFinish(r) ==
    /\ twin[r].out = <<>>
    /\ DEDone(twin[r].de)
    /\ twin' = [twin EXCEPT ![r].out =
                  <<[raised |-> FALSE, val |-> DEResult(twin[r].de).val,
                     params |-> DEResult(twin[r].de).params]>>]
    /\ UNCHANGED <<driver, csv, fs, seed, np_random, pc, error, df, dfLoaded,
                   started, de, g, lo, res, results, pred, lastEval, fn>>

NextDet == \E r \in 1..2 : TwinEval(r) \/ TwinFinish(r)

SpecDet == InitDet /\ [][NextDet]_vars

\* ----------------------------------------------------- the loss alone
\* The values of the arrays given to the loss.
LossCells == {Fin[0], Fin[-1500], Fin[FMAX], PInf, NaN}

Arrays(n) == [1..n -> LossCells]

InitLoss ==
    /\ csv = EmptyDf
    /\ seed = 0
    /\ Idle
    /\ twin = <<>>
    /\ \E n \in 0..MaxLen : \E a \in Arrays(n), b \in Arrays(n) :
         fn = [a |-> a, b |-> b, out |-> <<>>]

\* l = l1_loss(x, y, x, y)
SelfLoss ==
    /\ fn.out = <<>>
    /\ fn' = [fn EXCEPT !.out = <<l1_loss(fn.a, fn.b, fn.a, fn.b)>>]
    /\ UNCHANGED <<driver, csv, fs, seed, np_random, pc, error, df, dfLoaded,
                   started, de, g, lo, res, results, pred, lastEval, twin>>

NextLoss == SelfLoss

SpecLoss == InitLoss /\ [][NextLoss]_vars

\* ------------------------------------------------------ the mean loss
\* The values of the observed and of the predicted arrays given to mean_l1.
ObsCells == {Fin[1001], NaN, Str}
PredCells == {Fin[-2000], PInf}

InitMean ==
    /\ csv = EmptyDf
    /\ seed = 0
    /\ Idle
    /\ twin = <<>>
    /\ \E n \in 0..MaxLen :
         \E xo \in [1..n -> ObsCells], yo \in [1..n -> ObsCells],
            xp \in [1..n -> PredCells], yp \in [1..n -> PredCells] :
           fn = [x_obs |-> xo, y_obs |-> yo, x_pred |-> xp, y_pred |-> yp,
                 out |-> <<>>]

\* m = mean_l1(x_obs, y_obs, x_pred, y_pred)
MeanLoss ==
    /\ fn.out = <<>>
    /\ fn' = [fn EXCEPT !.out = <<mean_l1(fn.x_obs, fn.y_obs, fn.x_pred, fn.y_pred)>>]
    /\ UNCHANGED <<driver, csv, fs, seed, np_random, pc, error, df, dfLoaded,
                   started, de, g, lo, res, results, pred, lastEval, twin>>

NextMean == MeanLoss

SpecMean == InitMean /\ [][NextMean]_vars

\* ------------------------------------------------------------- claims
HasResult == results # <<>>
ResultParams == <<results[1].theta_deg, results[1].M, results[1].X>>

\* C1: the result run_full_optimization returns is chosen by res.success
\* alone: the refined point with the refined value when it is true, the
\* global stage's point and value when it is false, whatever the two values.
C1_SelectedBySuccess ==
    HasResult =>
        /\ res.success => ResultParams = res.x /\ results[1].l1 = res.fun
        /\ ~res.success => ResultParams = g.params /\ results[1].l1 = g.val

\* C1's case: refinement failed at a point other than the global one whose
\* objective is lower than the global one, and the global result was returned.
C1_Witness ==
    /\ HasResult
    /\ ~res.success
    /\ FLt(res.fun, g.val)
    /\ res.x # g.params
    /\ ResultParams = g.params

\* C2: the parameters run_full_optimization returns lie inside the box
\* theta in (0, 50), M in (-0.05, 0.05), X in (0, 100), in both branches.
C2_InsideBox ==
    HasResult =>
        /\ 0 < results[1].theta_deg /\ results[1].theta_deg < 50000000
        /\ -5000000 < results[1].M /\ results[1].M < 5000000
        /\ 0 < results[1].X /\ results[1].X < 100000000

\* C2's case: a refined result, moved from the global point onto an edge of
\* the box.
C2_Witness ==
    /\ HasResult
    /\ res.success
    /\ ResultParams # g.params
    /\ \E i \in 1..3 : ResultParams[i] \in {LocalBounds[i][1], LocalBounds[i][2]}

\* C3: the success field of the result is the flag local_refine reported.
C3_SuccessSurfaced == HasResult => results[1].success = res.success

\* C3's case: the fallback result has a finite loss, and success is still the
\* method's False.
C3_Witness ==
    /\ HasResult
    /\ ~res.success
    /\ IsFinite(results[1].l1)
    /\ results[1].success = FALSE

\* Whether the prediction the last evaluation compared to the observations has
\* a non-finite element.
NonFinitePrediction ==
    /\ lastEval # <<>>
    /\ \E e \in {predict_dataframe(dfLoaded, lastEval[1].params[1],
                                   lastEval[1].params[2], lastEval[1].params[3])} :
         \E i \in 1..Len(e.x) : ~IsFinite(e.x[i]) \/ ~IsFinite(e.y[i])

\* C4: once load_xy has accepted the table, run_full_optimization returns a
\* result with the keys theta_deg, M, X, l1, success: no exception leaves an
\* optimizer stage, and the objective of a candidate whose prediction is not
\* finite is +infinity.
C4_AlwaysReturns ==
    /\ error # <<>> => error[1].at \notin {"global_search", "local_refine"}
    /\ NonFinitePrediction => lastEval[1].val = PInf
    /\ HasResult => DOMAIN results[1] = {"theta_deg", "M", "X", "l1", "success"}

\* C6: load_xy raises when the table lacks x or y (and not for lacking t), and
\* then no optimizer stage has started, the objective was never evaluated and
\* no result is written.
C6_LoadRejects ==
    /\ (pc # "start" /\ ~({"x", "y"} \subseteq csv.cols)) =>
          /\ pc = "aborted"
          /\ error = <<[type |-> "ValueError", at |-> "load"]>>
          /\ started = {}
          /\ lastEval = <<>>
          /\ fs.results = <<>>
    /\ (pc # "start" /\ {"x", "y"} \subseteq csv.cols) =>
          (error = <<>> \/ error[1].at # "load")

\* C6's case: a table with y and t but no x was rejected.
C6_Witness ==
    /\ pc = "aborted"
    /\ csv.cols = {"y", "t"}
    /\ csv.n > 0
    /\ error[1].type = "ValueError"

\* C7: a table with the columns x and y and no rows is rejected before any
\* optimizer stage runs.
C7_EmptyRejected ==
    (csv.n = 0 /\ {"x", "y"} \subseteq csv.cols) =>
        /\ started = {}
        /\ pc \in {"start", "aborted"}

\* C8: whichever driver persists the result, a missing results directory is
\* created and the result is written.
C8_SaveCreatesDir ==
    /\ error # <<>> => error[1].at # "save"
    /\ pc \in {"saved", "predicted", "plotted", "done"} =>
          "results" \in fs.dirs /\ fs.results = results

\* C9: no evaluation of the objective changes the data frame, and each returns
\* the value that its parameters and the loaded data frame determine.
C9_ObjectivePure ==
    /\ df = dfLoaded
    /\ pc \notin {"start", "aborted"} => dfLoaded = csv
    /\ (lastEval # <<>> /\ ~Raises(lastEval[1].val)) =>
          lastEval[1].val = objective[lastEval[1].params, dfLoaded].val

\* C9's case: both stages have evaluated the objective over a data frame
\* without a t column.
C9_Witness ==
    /\ lastEval # <<>>
    /\ lastEval[1].stage = "local_refine"
    /\ lo.iter >= 1
    /\ "t" \notin df.cols
    /\ df.n > 0

\* C5: two runs of global_search with the same seed and data frame return the
\* same (value, params), whatever the state of the process-global generator
\* and however their evaluations interleave.
C5_Deterministic ==
    (twin # <<>> /\ twin[1].out # <<>> /\ twin[2].out # <<>>) =>
        twin[1].out = twin[2].out

\* C5's case: both runs returned, from different global generator states.
C5_Witness ==
    /\ twin # <<>>
    /\ twin[1].out # <<>>
    /\ twin[2].out # <<>>
    /\ twin[1].ambient # twin[2].ambient
    /\ ~twin[1].out[1].raised
    /\ IsFinite(twin[1].out[1].val)

\* C10 as stated: l1_loss(a, b, a, b) is 0 for any equal-length arrays.
C10_SelfLossZero == fn.out # <<>> => fn.out = <<Fin[0]>>

AllFinite(a) == \A i \in 1..Len(a) : IsFinite(a[i])

\* C10, amended: l1_loss(a, b, a, b) is 0 for any equal-length arrays a and b
\* of finite numbers.
C10_SelfLossZeroFinite ==
    (fn.out # <<>> /\ AllFinite(fn.a) /\ AllFinite(fn.b)) => fn.out = <<Fin[0]>>

\* C10's case: the loss of two non-empty finite arrays, not all zero, against
\* themselves.
C10_Witness ==
    /\ fn.out # <<>>
    /\ Len(fn.a) = MaxLen
    /\ AllFinite(fn.a) /\ AllFinite(fn.b)
    /\ fn.a # fn.b

\* The total loss of the arguments mean_l1 was called with.
MeanTotal == l1_loss(fn.x_obs, fn.y_obs, fn.x_pred, fn.y_pred)

C11_WitnessEmpty ==
    /\ fn.out # <<>>
    /\ Len(fn.x_obs) = 0
    /\ fn.out[1].raised

\* The place of each driver position in the order of the stages.
StageRank ==
    [p \in {"start", "loaded", "global", "searched", "local", "refined",
            "selected", "saved", "predicted", "plotted", "done"} |->
       CASE p = "start" -> 0 [] p = "loaded" -> 1 [] p = "global" -> 2
         [] p = "searched" -> 3 [] p = "local" -> 4 [] p = "refined" -> 5
         [] p = "selected" -> 6 [] p = "saved" -> 7 [] p = "predicted" -> 8
         [] p = "plotted" -> 9 [] p = "done" -> 10]

\* What the stages have left behind agrees with the order: the refinement was
\* started only after the global search returned, the result exists only
\* after both stages ran, and the results file and the plot exist only after
\* the selector produced the result.
StagesInOrder ==
    /\ "local_refine" \in started =>
          "global_search" \in started /\ DEDone(de) /\ g = DEResult(de)
    /\ HasResult => started = {"global_search", "local_refine"}
                      /\ res = PowellResult(lo)
    /\ fs.results # <<>> => HasResult /\ fs.results = results
    /\ pred # <<>> => HasResult /\ (driver = "cli" => fs.results = results)
    /\ fs.plot => pred # <<>>

\* A step of the run moves the driver to the next stage or aborts it, never
\* back and never over a stage; the refinement starts at the parameter vector
\* the global search returned.
StageStep ==
    /\ pc' # pc =>
          /\ pc # "aborted"
          /\ pc' = "aborted" \/ StageRank[pc'] = StageRank[pc] + 1
    /\ started' # started =>
          \E st \in {"global_search", "local_refine"} :
              st \notin started /\ started' = started \cup {st}
    /\ "local_refine" \in started' \ started =>
          /\ pc = "searched"
          /\ g = DEResult(de)
          /\ lastEval'[1].params = g.params
          /\ pc' = "local" => lo'.x = g.params
    /\ results' # results => pc = "refined" /\ results = <<>>
    /\ fs'.results # fs.results => pc = "selected" /\ fs.results = <<>>
    /\ pred' # pred => pc = "saved" /\ pred = <<>>
    /\ fs'.plot # fs.plot => pc = "predicted" /\ ~fs.plot

\* C12: in every driver run the stages run at most once each and in the order
\* load, global search, local refinement, selection, persistence, prediction,
\* plot; local refinement starts after the global search returned, at the
\* parameter vector it returned; the result is persisted and plotted only
\* after the selector produced it; no stage is entered again.
C12_StagesInOrder == [](StagesInOrder) /\ [][StageStep]_vars

\* C12's case: a run went through every stage, the refinement moved away from
\* the global search's point, and the result is in the file and plotted.
C12_Witness ==
    /\ pc = "done"
    /\ fs.results = results
    /\ fs.plot
    /\ lo.x # g.params
    /\ lo.iter >= 1
====
